---- MODULE Spec2Model ----
(***************************************************************************)
(* Model of the cart store of RocketShoes, src/src/hooks/useCart.tsx.      *)
(*                                                                         *)
(* CartProvider is a React function component.  Its state is two useState  *)
(* cells (cart, stock), two useRef cells (prevCartRef, prevStockRef), the  *)
(* constants of the last render that the handlers close over, the browser  *)
(* localStorage slot "@RocketShoes:cart", and the asynchronous handlers    *)
(* that are suspended at an await.  Arrays and product objects are         *)
(* JavaScript references: an array is modelled as [ref, items] where ref   *)
(* is its identity and items the sequence of object addresses, and the     *)
(* product objects live in heap, so that the in-place write of line 125    *)
(* and line 171 is seen through every array that shares the object.        *)
(***************************************************************************)
EXTENDS Integers, Sequences, FiniteSets, TLC

\* ---------------------------------------------------------------- bounds
NumProducts == 2        \* products the remote reader knows: ids 1..NumProducts
MaxStock == 2           \* remote stock amounts range over 0..MaxStock
MaxOps == 2             \* handler invocations that can be suspended at once

Catalog == 1 .. NumProducts
ProductIds == 1 .. (NumProducts + 1)     \* the last id is unknown to the remote
AmountArgs == (0 - 1) .. (MaxStock + 1)  \* amounts a caller may request
Slots == 1 .. MaxOps
ObjIds == 1 .. (NumProducts * (MaxOps + 2))     \* addresses of product objects
RefIds == 1 .. (MaxOps + 2)                     \* identities of arrays

\* ------------------------------------------------------- values of the code
NoObj == [id |-> 0, amount |-> 0]      \* undefined (Array.find found nothing)
NoRef == [ref |-> 0, items |-> << >>]  \* useRef() before its first assignment
NoStock == [ref |-> 0, amounts |-> << >>]
\* A value of the localStorage slot: kind says what getItem returns (null, a
\* string JSON.parse rejects, or JSON text) and text is the JSON text's items.
Absent == [kind |-> "null", text |-> << >>]
Malformed == [kind |-> "malformed", text |-> << >>]

NoToast == "none"
ErrAdd == "Erro na adicao do produto"
ErrStock == "Quantidade solicitada fora de estoque"
ErrRemove == "Erro na remocao do produto"
ErrUpdate == "Erro na alteracao de quantidade do produto"

VARIABLES
  phase,              \* "init" before the first render, "mounted", "crashed"
  storage,            \* localStorage["@RocketShoes:cart"]
  heap,               \* address -> product object {id, amount}
  cartState,          \* the useState cell behind cart (what setCart writes)
  cart,               \* the cart constant of the last render (handlers' closure)
  prevCartRef,        \* prevCartRef.current
  stockState,         \* the useState cell behind stock
  stock,              \* the stock constant of the last render
  prevStockRef,       \* prevStockRef.current
  loadStocks,         \* "idle", or "fetching" while loadStocks awaits /stock
  ops                 \* the handler invocations, one per slot

vars == << phase, storage, heap, cartState, cart, prevCartRef, stockState, stock,
           prevStockRef, loadStocks, ops >>

\* ------------------------------------------------------------ pure helpers
Min(S) == CHOOSE x \in S : \A y \in S : x <= y

Range(s) == { s[i] : i \in 1 .. Len(s) }

\* The line items an array holds, by value: what a reader of the array sees.
Content(h, items) ==
  [i \in 1 .. Len(items) |-> [id |-> h[items[i]].id, amount |-> h[items[i]].amount]]

Ids(content) == { content[i].id : i \in 1 .. Len(content) }

\* JSON.stringify(cart): the text holds the items by value, no addresses.
Serialize(h, items) == [kind |-> "json", text |-> Content(h, items)]

\* Mutant of FindIndex: a miss yields the last position, which is what
\* splice(-1, 1) removes when the guard of line 140 is forgotten.
FindIndexLastOnMiss(h, items, productId) ==
  LET hits == { i \in 1 .. Len(items) : h[items[i]].id = productId }
  IN  IF hits = {} THEN Len(items) ELSE Min(hits)

\* Array.prototype.findIndex with the predicate product.id === productId
\* (lines 136-138).  Positions are 1-based here, so the code's -1 is 0.
FindIndex(h, items, productId) ==
  LET hits == { i \in 1 .. Len(items) : h[items[i]].id = productId }
  IN  IF hits = {} THEN 0 ELSE Min(hits)

\* Mutant of Find: the predicate reads the wrong field.
FindByAmount(h, items, productId) ==
  LET hits == { i \in 1 .. Len(items) : h[items[i]].amount = productId }
  IN  IF hits = {} THEN 0 ELSE items[Min(hits)]

\* Array.prototype.find with the predicate product.id === productId (lines
\* 108-110 and 165-167): the address of the first match, or 0 for undefined.
Find(h, items, productId) ==
  LET hits == { i \in 1 .. Len(items) : h[items[i]].id = productId }
  IN  IF hits = {} THEN 0 ELSE items[Min(hits)]

\* Mutant of Splice: the position is off by one.
SpliceNext(items, productIndex) ==
  [i \in 1 .. (Len(items) - 1) |->
     IF i <= productIndex THEN items[i] ELSE items[i + 1]]

\* updatedCart.splice(productIndex, 1)
Splice(items, productIndex) ==
  [i \in 1 .. (Len(items) - 1) |->
     IF i < productIndex THEN items[i] ELSE items[i + 1]]

\* Addresses reachable from the arrays the program still holds.
Live(cs, c, p, o) ==
  Range(cs.items) \cup Range(c.items) \cup Range(p.items)
    \cup UNION { Range(o[k].cart) : k \in Slots }

\* The objects nothing refers to any more are reclaimed.
Collect(h, live) == [a \in ObjIds |-> IF a \in live THEN h[a] ELSE NoObj]

\* A fresh array identity: one that no held array has.
FreshRef(used) == Min(RefIds \ used)

UsedRefs == { cartState.ref, cart.ref, prevCartRef.ref }

\* ------------------------------------------------------------ handler state
IdleOp ==
  [kind |-> "none", productId |-> 0, amount |-> 0, pc |-> "idle",
   cart |-> << >>, toast |-> NoToast, committed |-> FALSE,
   before |-> << >>, product |-> "none", stockAmount |-> 0 - 1,
   inStock |-> 0 - 1]

InFlight(k) == ops[k].pc \in {"getProduct", "getStock"}

\* The state changed since the last render: React has a render to do.
RenderPending == cartState.ref # cart.ref \/ stockState.ref # stock.ref

\* ------------------------------------------------------------------- Init
InitialAmounts == 1 .. MaxStock

\* The carts an earlier session may have mirrored: unique ids, amounts >= 1.
StoredCarts ==
  { c \in UNION { [1 .. n -> [id : Catalog, amount : InitialAmounts]] :
                    n \in 0 .. NumProducts } :
      \A i, j \in 1 .. Len(c) : c[i].id = c[j].id => i = j }

Init ==
  /\ phase = "init"
  /\ storage \in {Absent, Malformed} \cup
                  { [kind |-> "json", text |-> c] : c \in StoredCarts }
  /\ heap = [a \in ObjIds |-> NoObj]
  /\ cartState = NoRef
  /\ cart = NoRef
  /\ prevCartRef = NoRef
  /\ stockState = NoStock
  /\ stock = NoStock
  /\ prevStockRef = NoStock
  /\ loadStocks = "idle"
  /\ ops = [k \in Slots |-> IdleOp]

\* ------------------------------------------------- store creation and render
\* A free address for a new object holding product productId.  Which free
\* address the allocator hands out is immaterial to the program; the model
\* takes the first free one of the addresses it reserves for the product.
NewObject(h, productId) ==
  Min({ a \in ObjIds : h[a] = NoObj /\ a % NumProducts = productId % NumProducts })

\* JSON.parse(storedCart): a new array of new objects, one per stored item.
RECURSIVE Parse(_, _)
Parse(h, text) ==
  IF text = << >>
  THEN [heap |-> h, items |-> << >>]
  ELSE LET a == NewObject(h, Head(text).id)
           rest == Parse([h EXCEPT ![a] = Head(text)], Tail(text))
       IN  [heap |-> rest.heap, items |-> << a >> \o rest.items]

\* Mutant of MirrorDue: deep equality instead of identity.
MirrorDueDeep(previous, current) ==
  Content(heap, previous.items) # Content(heap, current.items)

\* Mutant of MirrorDue: the test is inverted.
MirrorDueInverted(previous, current) == previous.ref = current.ref

\* Mutant of MirrorDue: the arrays are compared by their elements.
MirrorDueByItems(previous, current) == previous.items # current.items

\* Line 74: cartPreviousValue !== cart, a comparison of array identities.
MirrorDue(previous, current) == previous.ref # current.ref

\* Line 80: stockPreviousValue !== stock.
RefreshDue(previous, current) == previous.ref # current.ref

\* The first render and its effects (lines 40-83).  The lazy initializer of
\* useState reads the cache; JSON.parse throws on a malformed string and
\* nothing catches it, so the component fails to render.
Mount ==
  /\ phase = "init"
  /\ IF storage = Malformed
     THEN /\ phase' = "crashed"
          /\ UNCHANGED << storage, heap, cartState, cart, prevCartRef,
                          stockState, stock, prevStockRef, loadStocks >>
     ELSE LET text == IF storage = Absent THEN << >> ELSE storage.text
              parsed == Parse(heap, text)
              first == [ref |-> 1, items |-> parsed.items]
              empty == [ref |-> 1, amounts |-> << >>]
              \* lines 70-71: the refs are unset, so ?? yields cart and stock
              cartPreviousValue == IF prevCartRef = NoRef THEN first ELSE prevCartRef
              stockPreviousValue == IF prevStockRef = NoStock THEN empty ELSE prevStockRef
          IN  /\ phase' = "mounted"
              /\ heap' = parsed.heap
              /\ cartState' = first
              /\ cart' = first
              /\ prevCartRef' = first
              /\ stockState' = empty
              /\ stock' = empty
              /\ prevStockRef' = empty
              /\ storage' = IF MirrorDue(cartPreviousValue, first)
                            THEN Serialize(heap', first.items)
                            ELSE storage
              /\ loadStocks' = IF RefreshDue(stockPreviousValue, empty)
                               THEN "fetching"
                               ELSE loadStocks
  /\ UNCHANGED ops

\* A re-render after setCart, and the effects that follow it (lines 65-83).
\* prevCartRef.current is the cart of the render before, so when the test of
\* line 74 passes the dependency cart of line 77 has changed and the effect
\* does run; likewise for lines 80 and 83.
Render ==
  /\ phase = "mounted"
  /\ RenderPending
  /\ LET cartPreviousValue == prevCartRef
         stockPreviousValue == prevStockRef
     IN  /\ cart' = cartState
         /\ stock' = stockState
         /\ prevCartRef' = cartState
         /\ prevStockRef' = stockState
         /\ storage' = IF MirrorDue(cartPreviousValue, cartState)
                       THEN Serialize(heap, cartState.items)
                       ELSE storage
         /\ loadStocks' = IF RefreshDue(stockPreviousValue, stockState)
                          THEN "fetching"
                          ELSE loadStocks
  /\ heap' = Collect(heap, Live(cartState, cart', prevCartRef', ops))
  /\ UNCHANGED << phase, cartState, stockState, ops >>

renderVars == << phase, storage, cart, prevCartRef, stockState, stock,
                 prevStockRef, loadStocks >>

\* setCart(items): the state cell gets a new array; the render comes later.
SetCart(items) == [ref |-> FreshRef(UsedRefs), items |-> items]

\* Mutant of Finish: the failure is swallowed, no toast is raised.
FinishSilently(op, toast, committed) ==
  [op EXCEPT !.pc = "done", !.toast = NoToast, !.committed = committed,
             !.cart = << >>]

\* A handler ends, with the toast it raised (if any) and whether it called
\* setCart; its locals, the captured cart among them, are released.
Finish(op, toast, committed) ==
  [op EXCEPT !.pc = "done", !.toast = toast, !.committed = committed,
             !.cart = << >>]

\* ----------------------------------------------------------- removeProduct
\* Lines 133-148, synchronous.
removeProduct(k, productId) ==
  /\ phase = "mounted"
  /\ LET updatedCart == cart.items
         productIndex == FindIndex(heap, updatedCart, productId)
         call == [IdleOp EXCEPT !.kind = "removeProduct", !.productId = productId,
                                !.before = Content(heap, cartState.items)]
     IN  IF productIndex = 0
         THEN /\ ops' = [ops EXCEPT ![k] =
                           Finish(call, ErrRemove, FALSE)]
              /\ UNCHANGED cartState
         ELSE /\ ops' = [ops EXCEPT ![k] =
                           Finish(call, NoToast, TRUE)]
              /\ cartState' = SetCart(Splice(updatedCart, productIndex))
  /\ heap' = Collect(heap, Live(cartState', cart, prevCartRef, ops'))
  /\ UNCHANGED renderVars

\* -------------------------------------------------------------- addProduct
\* What the remote reader can answer to GET products/:id (line 86): the
\* product, an empty body, or a failed request.
ProductAnswers(productId) ==
  IF productId \in Catalog THEN {"found", "error"} ELSE {"empty", "error"}

\* What it can answer to GET stock/:id (line 92): the amount it holds for the
\* product at that moment, which is the remote's to decide, or a failure
\* (written -1).
StockAnswers(productId) ==
  IF productId \in Catalog THEN (0 .. MaxStock) \cup {0 - 1} ELSE {0 - 1}

\* Line 113: the amount a product enters the cart with.
NewProductAmount == 1

\* Mutant of AddOutOfStock: off by one.
AddOutOfStockStrict(have, stockAmount) == have > stockAmount

\* Line 120: productExists.amount >= amount.
AddOutOfStock(have, stockAmount) == have >= stockAmount

\* Mutant of Increment: the wrong operator.
Decrement(amount) == amount - 1

\* Line 125: productExists.amount++.
Increment(amount) == amount + 1

\* Mutant of AppendProduct: the product goes first.
PrependProduct(items, product) == << product >> \o items

\* Line 114: [...updatedCart, product].
AppendProduct(items, product) == Append(items, product)

\* Lines 97-101: the call copies the cart of its render and awaits getProduct.
addProduct(k, productId) ==
  /\ phase = "mounted"
  /\ ops' = [ops EXCEPT ![k] =
               [IdleOp EXCEPT !.kind = "addProduct", !.productId = productId,
                              !.pc = "getProduct", !.cart = cart.items,
                              !.before = Content(heap, cartState.items)]]
  /\ heap' = Collect(heap, Live(cartState, cart, prevCartRef, ops'))
  /\ UNCHANGED << cartState, renderVars >>

\* Mutant of addProductGotProduct: the handler reads the state cell as it is
\* when getProduct settles instead of the cart it captured when called.
addProductGotProductLatest(k, answer, inStock) ==
  /\ ops[k].kind = "addProduct"
  /\ ops[k].pc = "getProduct"
  /\ answer \in ProductAnswers(ops[k].productId)
  /\ LET updatedCart == cartState.items
         productExists == Find(heap, updatedCart, ops[k].productId)
         product == NewObject(heap, ops[k].productId)
         got == [ops[k] EXCEPT !.product = answer]
     IN  IF answer # "found"
         THEN /\ ops' = [ops EXCEPT ![k] = Finish(got, ErrAdd, FALSE)]
              /\ UNCHANGED << cartState, heap >>
         ELSE IF productExists = 0
         THEN /\ cartState' = SetCart(AppendProduct(updatedCart, product))
              /\ ops' = [ops EXCEPT ![k] =
                           Finish([got EXCEPT !.inStock = inStock], NoToast, TRUE)]
              /\ heap' = Collect(
                   [heap EXCEPT ![product] =
                      [id |-> ops[k].productId, amount |-> NewProductAmount]],
                   Live(cartState', cart, prevCartRef, ops'))
         ELSE /\ ops' = [ops EXCEPT ![k] = [got EXCEPT !.pc = "getStock"]]
              /\ UNCHANGED << cartState, heap >>
  /\ UNCHANGED renderVars

\* Mutant of addProductGotProduct: the product is looked up in the captured
\* cart but appended to the latest state, as setCart(c => [...c, product]).
addProductGotProductAppendLatest(k, answer, inStock) ==
  /\ ops[k].kind = "addProduct"
  /\ ops[k].pc = "getProduct"
  /\ answer \in ProductAnswers(ops[k].productId)
  /\ LET updatedCart == ops[k].cart
         productExists == Find(heap, updatedCart, ops[k].productId)
         product == NewObject(heap, ops[k].productId)
         got == [ops[k] EXCEPT !.product = answer]
     IN  IF answer # "found"
         THEN /\ ops' = [ops EXCEPT ![k] = Finish(got, ErrAdd, FALSE)]
              /\ UNCHANGED << cartState, heap >>
         ELSE IF productExists = 0
         THEN /\ cartState' = SetCart(AppendProduct(cartState.items, product))
              /\ ops' = [ops EXCEPT ![k] =
                           Finish([got EXCEPT !.inStock = inStock], NoToast, TRUE)]
              /\ heap' = Collect(
                   [heap EXCEPT ![product] =
                      [id |-> ops[k].productId, amount |-> NewProductAmount]],
                   Live(cartState', cart, prevCartRef, ops'))
         ELSE /\ ops' = [ops EXCEPT ![k] = [got EXCEPT !.pc = "getStock"]]
              /\ UNCHANGED << cartState, heap >>
  /\ UNCHANGED renderVars

\* Lines 101-116: getProduct settles.  inStock is the amount the remote holds
\* for the product at that moment; the handler does not ask for it here.
addProductGotProduct(k, answer, inStock) ==
  /\ ops[k].kind = "addProduct"
  /\ ops[k].pc = "getProduct"
  /\ answer \in ProductAnswers(ops[k].productId)
  /\ LET updatedCart == ops[k].cart
         productExists == Find(heap, updatedCart, ops[k].productId)
         product == NewObject(heap, ops[k].productId)
         got == [ops[k] EXCEPT !.product = answer]
     IN  IF answer # "found"
         THEN /\ ops' = [ops EXCEPT ![k] = Finish(got, ErrAdd, FALSE)]
              /\ UNCHANGED << cartState, heap >>
         ELSE IF productExists = 0
         THEN /\ cartState' = SetCart(AppendProduct(updatedCart, product))
              /\ ops' = [ops EXCEPT ![k] =
                           Finish([got EXCEPT !.inStock = inStock], NoToast, TRUE)]
              /\ heap' = Collect(
                   [heap EXCEPT ![product] =
                      [id |-> ops[k].productId, amount |-> NewProductAmount]],
                   Live(cartState', cart, prevCartRef, ops'))
         ELSE /\ ops' = [ops EXCEPT ![k] = [got EXCEPT !.pc = "getStock"]]
              /\ UNCHANGED << cartState, heap >>
  /\ UNCHANGED renderVars

\* Mutant of addProductGotStock: the stock is compared with the amount the
\* line item had when the handler was called, not with the one it has now.
addProductGotStockStale(k, answer) ==
  /\ ops[k].kind = "addProduct"
  /\ ops[k].pc = "getStock"
  /\ answer \in StockAnswers(ops[k].productId)
  /\ LET updatedCart == ops[k].cart
         productExists == Find(heap, updatedCart, ops[k].productId)
         got == [ops[k] EXCEPT !.stockAmount = answer, !.inStock = answer]
         seen == { i \in 1 .. Len(ops[k].before) :
                     ops[k].before[i].id = ops[k].productId }
         stale == IF seen = {} THEN heap[productExists].amount
                  ELSE ops[k].before[Min(seen)].amount
     IN  IF answer < 0
         THEN /\ ops' = [ops EXCEPT ![k] = Finish(got, ErrAdd, FALSE)]
              /\ UNCHANGED << cartState, heap >>
         ELSE IF AddOutOfStock(stale, answer)
         THEN /\ ops' = [ops EXCEPT ![k] = Finish(got, ErrStock, FALSE)]
              /\ UNCHANGED << cartState, heap >>
         ELSE /\ cartState' = SetCart(updatedCart)
              /\ ops' = [ops EXCEPT ![k] = Finish(got, NoToast, TRUE)]
              /\ heap' = Collect(
                   [heap EXCEPT ![productExists].amount = Increment(@)],
                   Live(cartState', cart, prevCartRef, ops'))
  /\ UNCHANGED renderVars

\* Lines 118-130: getStock settles.
addProductGotStock(k, answer) ==
  /\ ops[k].kind = "addProduct"
  /\ ops[k].pc = "getStock"
  /\ answer \in StockAnswers(ops[k].productId)
  /\ LET updatedCart == ops[k].cart
         productExists == Find(heap, updatedCart, ops[k].productId)
         got == [ops[k] EXCEPT !.stockAmount = answer, !.inStock = answer]
     IN  IF answer < 0
         THEN /\ ops' = [ops EXCEPT ![k] = Finish(got, ErrAdd, FALSE)]
              /\ UNCHANGED << cartState, heap >>
         ELSE IF AddOutOfStock(heap[productExists].amount, answer)
         THEN /\ ops' = [ops EXCEPT ![k] = Finish(got, ErrStock, FALSE)]
              /\ UNCHANGED << cartState, heap >>
         ELSE /\ cartState' = SetCart(updatedCart)
              /\ ops' = [ops EXCEPT ![k] = Finish(got, NoToast, TRUE)]
              /\ heap' = Collect(
                   [heap EXCEPT ![productExists].amount = Increment(@)],
                   Live(cartState', cart, prevCartRef, ops'))
  /\ UNCHANGED renderVars

\* ----------------------------------------------------- updateProductAmount
\* Mutant of InvalidAmount: zero is let through.
InvalidAmountNegative(amount) == amount < 0

\* Line 155: amount < 1.
InvalidAmount(amount) == amount < 1

\* Mutant of UpdateOutOfStock: off by one.
UpdateOutOfStockOrEqual(stockAmount, amount) == stockAmount <= amount

\* Line 159: stockAmount < amount.
UpdateOutOfStock(stockAmount, amount) == stockAmount < amount

\* Lines 150-157: the call rejects an amount below 1, else awaits getStock.
updateProductAmount(k, productId, amount) ==
  /\ phase = "mounted"
  /\ LET call == [IdleOp EXCEPT !.kind = "updateProductAmount",
                                !.productId = productId, !.amount = amount,
                                !.cart = cart.items,
                                !.before = Content(heap, cartState.items)]
     IN  IF InvalidAmount(amount)
         THEN ops' = [ops EXCEPT ![k] =
                        Finish(call, ErrUpdate, FALSE)]
         ELSE ops' = [ops EXCEPT ![k] = [call EXCEPT !.pc = "getStock"]]
  /\ heap' = Collect(heap, Live(cartState, cart, prevCartRef, ops'))
  /\ UNCHANGED << cartState, renderVars >>

\* Mutant of updateProductAmountGotStock: the amount is written into the
\* shared object before the stock is compared.
updateProductAmountWriteFirst(k, answer) ==
  /\ ops[k].kind = "updateProductAmount"
  /\ ops[k].pc = "getStock"
  /\ answer \in StockAnswers(ops[k].productId)
  /\ LET updatedCart == ops[k].cart
         productExists == Find(heap, updatedCart, ops[k].productId)
         got == [ops[k] EXCEPT !.stockAmount = answer, !.inStock = answer]
         written == IF productExists = 0 THEN heap
                    ELSE [heap EXCEPT ![productExists].amount = ops[k].amount]
     IN  IF answer < 0
         THEN /\ ops' = [ops EXCEPT ![k] = Finish(got, ErrUpdate, FALSE)]
              /\ UNCHANGED << cartState, heap >>
         ELSE IF UpdateOutOfStock(answer, ops[k].amount)
         THEN /\ ops' = [ops EXCEPT ![k] = Finish(got, ErrStock, FALSE)]
              /\ heap' = Collect(written, Live(cartState, cart, prevCartRef, ops'))
              /\ UNCHANGED cartState
         ELSE IF productExists = 0
         THEN /\ ops' = [ops EXCEPT ![k] = Finish(got, ErrUpdate, FALSE)]
              /\ UNCHANGED << cartState, heap >>
         ELSE /\ cartState' = SetCart(updatedCart)
              /\ ops' = [ops EXCEPT ![k] = Finish(got, NoToast, TRUE)]
              /\ heap' = Collect(written, Live(cartState', cart, prevCartRef, ops'))
  /\ UNCHANGED renderVars

\* Mutant of updateProductAmountGotStock: the line item is looked up before
\* the stock is compared.
updateProductAmountLookupFirst(k, answer) ==
  /\ ops[k].kind = "updateProductAmount"
  /\ ops[k].pc = "getStock"
  /\ answer \in StockAnswers(ops[k].productId)
  /\ LET updatedCart == ops[k].cart
         productExists == Find(heap, updatedCart, ops[k].productId)
         got == [ops[k] EXCEPT !.stockAmount = answer, !.inStock = answer]
     IN  IF answer < 0 \/ productExists = 0
         THEN /\ ops' = [ops EXCEPT ![k] = Finish(got, ErrUpdate, FALSE)]
              /\ UNCHANGED << cartState, heap >>
         ELSE IF UpdateOutOfStock(answer, ops[k].amount)
         THEN /\ ops' = [ops EXCEPT ![k] = Finish(got, ErrStock, FALSE)]
              /\ UNCHANGED << cartState, heap >>
         ELSE /\ cartState' = SetCart(updatedCart)
              /\ ops' = [ops EXCEPT ![k] = Finish(got, NoToast, TRUE)]
              /\ heap' = Collect(
                   [heap EXCEPT ![productExists].amount = ops[k].amount],
                   Live(cartState', cart, prevCartRef, ops'))
  /\ UNCHANGED renderVars

\* Lines 157-176: getStock settles.
updateProductAmountGotStock(k, answer) ==
  /\ ops[k].kind = "updateProductAmount"
  /\ ops[k].pc = "getStock"
  /\ answer \in StockAnswers(ops[k].productId)
  /\ LET updatedCart == ops[k].cart
         productExists == Find(heap, updatedCart, ops[k].productId)
         got == [ops[k] EXCEPT !.stockAmount = answer, !.inStock = answer]
     IN  IF answer < 0
         THEN /\ ops' = [ops EXCEPT ![k] = Finish(got, ErrUpdate, FALSE)]
              /\ UNCHANGED << cartState, heap >>
         ELSE IF UpdateOutOfStock(answer, ops[k].amount)
         THEN /\ ops' = [ops EXCEPT ![k] = Finish(got, ErrStock, FALSE)]
              /\ UNCHANGED << cartState, heap >>
         ELSE IF productExists = 0
         THEN /\ ops' = [ops EXCEPT ![k] = Finish(got, ErrUpdate, FALSE)]
              /\ UNCHANGED << cartState, heap >>
         ELSE /\ cartState' = SetCart(updatedCart)
              /\ ops' = [ops EXCEPT ![k] = Finish(got, NoToast, TRUE)]
              /\ heap' = Collect(
                   [heap EXCEPT ![productExists].amount = ops[k].amount],
                   Live(cartState', cart, prevCartRef, ops'))
  /\ UNCHANGED renderVars

\* ---------------------------------------------------------------- loadStocks
\* Lines 51-60: GET /stock settles; the listing is reduced to a mapping and
\* setStock replaces the snapshot with it in one assignment.  A failed request
\* rejects the promise of line 81, which nothing handles: the snapshot stays.
\* The call of line 81 is the only one, and Mount and Render never make it
\* (stockPreviousValue is stock itself in every render), so this step is
\* never enabled and no specification below lists it.
loadStocksSettles(listing, failed) ==
  /\ loadStocks = "fetching"
  /\ loadStocks' = "idle"
  /\ stockState' =
       IF failed THEN stockState
       ELSE [ref |-> Min(RefIds \ {stockState.ref, stock.ref, prevStockRef.ref}),
             amounts |-> listing]
  /\ UNCHANGED << phase, storage, heap, cartState, cart, prevCartRef, stock,
                  prevStockRef, ops >>

\* ------------------------------------------------------------ specification
\* The UI invokes one operation at a time: a handler is called only when no
\* other is suspended and the render its predecessor caused is over.
Quiet == (\A k \in Slots : ~InFlight(k)) /\ ~RenderPending

Next ==
  \/ Mount
  \/ Render
  \/ \E p \in ProductIds : Quiet /\ addProduct(1, p)
  \/ \E a \in {"found", "empty", "error"}, s \in 0 .. MaxStock :
        addProductGotProduct(1, a, s)
  \/ \E a \in (0 - 1) .. MaxStock : addProductGotStock(1, a)
  \/ \E p \in ProductIds : Quiet /\ removeProduct(1, p)
  \/ \E p \in ProductIds, n \in AmountArgs : Quiet /\ updateProductAmount(1, p, n)
  \/ \E a \in (0 - 1) .. MaxStock : updateProductAmountGotStock(1, a)

Spec == Init /\ [][Next]_vars

\* The same, with every fetch a handler awaits settling in the end (the
\* request is answered or fails; there is no cancellation).
SpecFair ==
  /\ Init /\ [][Next]_vars
  /\ WF_vars(\E a \in {"found", "empty", "error"}, s \in 0 .. MaxStock :
               addProductGotProduct(1, a, s))
  /\ WF_vars(\E a \in (0 - 1) .. MaxStock : addProductGotStock(1, a))
  /\ WF_vars(\E a \in (0 - 1) .. MaxStock : updateProductAmountGotStock(1, a))

\* The store as the code leaves it: nothing serializes the handlers, so the
\* host may call one while others are suspended at an await or before the
\* render a commit has caused.  A call takes the first slot never used, so
\* a behaviour has at most MaxOps calls, overlapping in every possible way.
FreeSlot(k) == ops[k].pc = "idle" /\ \A j \in 1 .. (k - 1) : ops[j].pc # "idle"

NextConc ==
  \/ Mount
  \/ Render
  \/ \E k \in Slots, p \in ProductIds : FreeSlot(k) /\ addProduct(k, p)
  \/ \E k \in Slots, a \in {"found", "empty", "error"}, s \in 0 .. MaxStock :
        addProductGotProduct(k, a, s)
  \/ \E k \in Slots, a \in (0 - 1) .. MaxStock : addProductGotStock(k, a)
  \/ \E k \in Slots, p \in ProductIds : FreeSlot(k) /\ removeProduct(k, p)
  \/ \E k \in Slots, p \in ProductIds, n \in AmountArgs :
        FreeSlot(k) /\ updateProductAmount(k, p, n)
  \/ \E k \in Slots, a \in (0 - 1) .. MaxStock : updateProductAmountGotStock(k, a)

SpecConc == Init /\ [][NextConc]_vars

\* ------------------------------------------------------------------ claims
\* The Cart by value: the line items of the state cell, in order.
Cart == Content(heap, cartState.items)

UniqueIds(content) ==
  \A i, j \in 1 .. Len(content) : content[i].id = content[j].id => i = j

IndexOf(content, productId) ==
  CHOOSE i \in 1 .. Len(content) : content[i].id = productId

Done(k, kind) == ops[k].kind = kind /\ ops[k].pc = "done"

\* What reading the cache and deserializing it yields, by value.
Deserialized ==
  LET parsed == Parse([a \in ObjIds |-> NoObj], storage.text)
  IN  Content(parsed.heap, parsed.items)

\* C1 (uniqueness): with the operations invoked one at a time, the Cart never
\* holds two line items with the same productId, and an addProduct of a
\* product already in the Cart leaves the number of entries as it was.
C1_Uniqueness ==
  /\ UniqueIds(Cart)
  /\ \A k \in Slots :
       Done(k, "addProduct") /\ ops[k].productId \in Ids(ops[k].before)
         => Len(Cart) = Len(ops[k].before)

C1_Witness ==
  \E k \in Slots :
    /\ Done(k, "addProduct") /\ ops[k].committed
    /\ ops[k].productId \in Ids(ops[k].before)
    /\ Len(Cart) = NumProducts

\* C2 (stock ceiling): after a successful addProduct or updateProductAmount,
\* the amount of the line item it affected is at most the stock amount the
\* remote held for that product at the time, the addProduct that first
\* inserts the item included.
C2_StockCeiling ==
  \A k \in Slots :
    /\ ops[k].kind \in {"addProduct", "updateProductAmount"}
    /\ ops[k].pc = "done" /\ ops[k].committed
    => Cart[IndexOf(Cart, ops[k].productId)].amount <= ops[k].inStock

\* C3 (atomicity on failure): an operation that ended by raising a failure
\* toast left the Cart equal, in content and order, to the Cart before the
\* call.
C3_Atomicity ==
  \A k \in Slots :
    ops[k].pc = "done" /\ ops[k].toast # NoToast
      => ~ops[k].committed /\ Cart = ops[k].before

C3_Witness ==
  \E k \in Slots :
    /\ Done(k, "updateProductAmount") /\ ops[k].toast = ErrStock
    /\ ops[k].productId \in Ids(ops[k].before)
    /\ Len(ops[k].before) = NumProducts

\* C4 (persistence mirror): once the render that follows a commit is over,
\* the cache deserializes to the Cart, content and order; while that render
\* is still due the cache holds the Cart as it was before the operation, so
\* it never holds anything but a committed Cart.
C4_PersistenceMirror ==
  phase = "mounted" =>
    LET mirrored == IF storage = Absent THEN << >> ELSE Deserialized
    IN  IF RenderPending
        THEN \E k \in Slots :
               ops[k].pc = "done" /\ ops[k].committed /\ mirrored = ops[k].before
        ELSE /\ mirrored = Cart
             /\ \A k \in Slots : ops[k].committed => storage = Serialize(heap, cartState.items)

C4_Witness ==
  \E k \in Slots :
    /\ Done(k, "addProduct") /\ ops[k].committed
    /\ ops[k].productId \in Ids(ops[k].before)
    /\ ~RenderPending
    /\ storage = Serialize(heap, cartState.items)

\* C5 (amount floor): updateProductAmount with an amount below 1 ends at once,
\* without a fetch, with the could-not-update toast and the Cart as it was,
\* whatever the Cart and the productId; an amount of 0 removes nothing.
C5_AmountFloor ==
  \A k \in Slots :
    ops[k].kind = "updateProductAmount" /\ ops[k].amount < 1
      => /\ ops[k].pc = "done"
         /\ ops[k].toast = ErrUpdate
         /\ ~ops[k].committed
         /\ ops[k].stockAmount < 0
         /\ Cart = ops[k].before

C5_Witness ==
  \E k \in Slots :
    /\ Done(k, "updateProductAmount") /\ ops[k].amount = 0
    /\ ops[k].productId \in Ids(Cart)

\* C6 (remove of an absent product): removeProduct ends in the step that
\* calls it, without a fetch, and when no line item has the productId it
\* raises the could-not-remove toast and leaves the Cart as it was.
C6_RemoveAbsent ==
  \A k \in Slots :
    ops[k].kind = "removeProduct"
      => /\ ops[k].pc = "done"
         /\ ops[k].product = "none" /\ ops[k].stockAmount < 0
         /\ ops[k].productId \notin Ids(ops[k].before)
              => /\ ops[k].toast = ErrRemove
                 /\ ~ops[k].committed
                 /\ Cart = ops[k].before

C6_Witness ==
  \E k \in Slots :
    /\ Done(k, "removeProduct") /\ ops[k].toast = ErrRemove
    /\ ops[k].productId \notin Ids(ops[k].before)
    /\ Len(Cart) >= 1

\* C7 (amount invariant): every line item stored in the Cart has amount >= 1.
C7_AmountAtLeastOne ==
  \A i \in 1 .. Len(Cart) : Cart[i].amount >= 1

C7_Witness ==
  \E k \in Slots :
    /\ Done(k, "updateProductAmount") /\ ops[k].committed
    /\ ops[k].amount = 1
    /\ ops[k].before[IndexOf(ops[k].before, ops[k].productId)].amount > 1
    /\ Cart[IndexOf(Cart, ops[k].productId)].amount = 1

\* C8 (addProduct of a new product): when the productId is not in the Cart
\* and the product is resolved, the Cart becomes the previous Cart with the
\* line item {productId, amount 1} appended at the end; when it is not
\* resolved the Cart stays as it was.
C8_AddNew ==
  \A k \in Slots :
    Done(k, "addProduct") /\ ops[k].productId \notin Ids(ops[k].before)
      => IF ops[k].product = "found"
         THEN /\ ops[k].committed /\ ops[k].toast = NoToast
              /\ Cart = Append(ops[k].before, [id |-> ops[k].productId, amount |-> 1])
         ELSE ops[k].toast = ErrAdd /\ Cart = ops[k].before

C8_Witness ==
  \E k \in Slots :
    /\ Done(k, "addProduct") /\ ops[k].product = "found"
    /\ ops[k].productId \notin Ids(ops[k].before)
    /\ Len(ops[k].before) >= 1
    /\ Len(Cart) = Len(ops[k].before) + 1

\* C9 (addProduct of a product in the Cart): with a the item's amount and s
\* the stock amount fetched, a >= s raises the out-of-stock toast and leaves
\* the Cart as it was; otherwise the item's amount becomes a + 1, in place,
\* and nothing else changes.
C9_AddExisting ==
  \A k \in Slots :
    /\ Done(k, "addProduct") /\ ops[k].productId \in Ids(ops[k].before)
    /\ ops[k].stockAmount >= 0
    => LET i == IndexOf(ops[k].before, ops[k].productId)
           a == ops[k].before[i].amount
       IN  IF a >= ops[k].stockAmount
           THEN ops[k].toast = ErrStock /\ ~ops[k].committed /\ Cart = ops[k].before
           ELSE /\ ops[k].committed /\ ops[k].toast = NoToast
                /\ Cart = [ops[k].before EXCEPT ![i].amount = a + 1]

C9_Witness ==
  \E k \in Slots :
    /\ Done(k, "addProduct") /\ ops[k].productId \in Ids(ops[k].before)
    /\ ops[k].committed
    /\ Len(ops[k].before) = NumProducts
    /\ IndexOf(ops[k].before, ops[k].productId) = 1
    /\ Cart[1].amount = ops[k].stockAmount

\* C10 (updateProductAmount overwrite): for a product in the Cart and a
\* requested amount >= 1, an amount up to the stock amount fetched becomes
\* the item's amount, in place, and nothing else changes; a larger amount
\* raises the out-of-stock toast and leaves the Cart as it was.
C10_UpdateOverwrite ==
  \A k \in Slots :
    /\ Done(k, "updateProductAmount") /\ ops[k].productId \in Ids(ops[k].before)
    /\ ops[k].amount >= 1 /\ ops[k].stockAmount >= 0
    => LET i == IndexOf(ops[k].before, ops[k].productId)
       IN  IF ops[k].amount <= ops[k].stockAmount
           THEN /\ ops[k].committed /\ ops[k].toast = NoToast
                /\ Cart = [ops[k].before EXCEPT ![i].amount = ops[k].amount]
           ELSE ops[k].toast = ErrStock /\ ~ops[k].committed /\ Cart = ops[k].before

C10_Witness ==
  \E k \in Slots :
    /\ Done(k, "updateProductAmount") /\ ops[k].committed
    /\ Len(ops[k].before) = NumProducts
    /\ LET i == IndexOf(ops[k].before, ops[k].productId)
       IN  ops[k].amount < ops[k].before[i].amount /\ Cart[i].amount = ops[k].amount

\* C11 (removeProduct of a present product): the Cart becomes the previous
\* Cart without the line item of the productId; the remaining items keep
\* their amounts and their relative order.
C11_RemovePresent ==
  \A k \in Slots :
    Done(k, "removeProduct") /\ ops[k].productId \in Ids(ops[k].before)
      => /\ ops[k].committed /\ ops[k].toast = NoToast
         /\ Cart = SelectSeq(ops[k].before, LAMBDA item : item.id # ops[k].productId)

C11_Witness ==
  \E k \in Slots :
    /\ Done(k, "removeProduct") /\ ops[k].committed
    /\ Len(ops[k].before) = NumProducts
    /\ ops[k].before[1].id = ops[k].productId
    /\ Len(Cart) = NumProducts - 1

\* C12 (initialization with a bad cache): store creation never ends in an
\* error state, and a store created over a malformed cache value starts with
\* the empty Cart, as if the value were absent.
C12_BadCacheFallsBack ==
  /\ phase # "crashed"
  /\ storage = Malformed /\ phase # "init" => phase = "mounted" /\ Cart = << >>

\* C13 (round trip across store creation): a store created over the mirror of
\* a committed Cart starts with a Cart equal to it in content and order, a
\* store created over an absent cache starts with the empty Cart, and store
\* creation writes nothing to the cache.
C13_RoundTrip ==
  [][phase = "init" /\ phase' = "mounted"
       => /\ storage' = storage
          /\ Cart' = IF storage = Absent THEN << >> ELSE storage.text]_vars

C13_Witness ==
  /\ phase = "mounted"
  /\ \A k \in Slots : ops[k].pc = "idle"
  /\ storage.kind = "json"
  /\ Len(storage.text) = NumProducts
  /\ Cart = storage.text

\* C14 (stock snapshot population): the snapshot starts empty and, the remote
\* listing being available, store creation leads to its population by the
\* refresh: once the store is created a refresh is under way or the snapshot
\* already holds the listing.
C14_SnapshotPopulated ==
  /\ phase = "init" => stock.amounts = << >>
  /\ phase = "mounted" => loadStocks = "fetching" \/ stockState.amounts # << >>

\* C15 (completion without uncaught faults): every fetch settling in the end,
\* a handler that awaits one ends, and every handler that has ended either
\* committed and raised no toast or raised one failure toast and committed
\* nothing; a failed product or stock fetch ends in the toast of its handler.
Outcome(k) ==
  /\ ops[k].pc = "done"
  /\ ops[k].committed = (ops[k].toast = NoToast)
  /\ ops[k].toast \in {NoToast, ErrAdd, ErrStock, ErrRemove, ErrUpdate}

C15_Completion ==
  /\ [](\A k \in Slots :
         /\ ops[k].pc = "done" => Outcome(k)
         /\ ops[k].product = "error"
              \/ (/\ Done(k, "addProduct") /\ ops[k].product = "found"
                  /\ ops[k].productId \in Ids(ops[k].before)
                  /\ ops[k].stockAmount < 0)
              => ops[k].toast = ErrAdd
         /\ Done(k, "updateProductAmount") /\ ops[k].amount >= 1
              /\ ops[k].stockAmount < 0 => ops[k].toast = ErrUpdate)
  /\ \A k \in Slots : InFlight(k) ~> Outcome(k)

C15_Witness ==
  \E k \in Slots :
    /\ Done(k, "addProduct") /\ ops[k].product = "found"
    /\ ops[k].productId \in Ids(ops[k].before)
    /\ ops[k].stockAmount < 0
    /\ ops[k].toast = ErrAdd /\ ~ops[k].committed

\* C16 (mirror change detection): the cache is written in exactly the update
\* cycles whose cart is another array than the cart of the cycle before, and
\* what is written is that cart; so a commit, even of equal content, is
\* followed by a write, and store creation, a failed operation and the steps
\* of the handlers write nothing.
C16_MirrorDetection ==
  /\ [][/\ phase = "mounted" /\ cart'.ref # cart.ref
            => storage' = Serialize(heap', cart'.items)
        /\ phase = "init" \/ cart'.ref = cart.ref => storage' = storage]_vars
  /\ [](\A k \in Slots :
         /\ ops[k].pc = "done" /\ ops[k].toast # NoToast => ~RenderPending
         /\ ops[k].pc = "done" /\ ops[k].committed /\ ~RenderPending
              => storage = Serialize(heap, cartState.items))

C16_Witness ==
  \E k \in Slots :
    /\ Done(k, "updateProductAmount") /\ ops[k].committed
    /\ Cart = ops[k].before
    /\ Len(Cart) = NumProducts
    /\ ~RenderPending
    /\ storage = Serialize(heap, cartState.items)

\* C17 (known race on the Cart read-modify-write): a handler commits the cart
\* it captured when it was called, changed only in the line item of its own
\* productId, whatever was committed in between; so when two operations
\* overlap a committed change can be lost, and there is an execution whose
\* final Cart is the result of neither serial order.
Others(h, items, productId) ==
  SelectSeq(items, LAMBDA a : h[a].id # productId)

C17_CommitsCapturedCart ==
  [][\A k \in Slots :
       ops[k].pc # "done" /\ ops'[k].pc = "done" /\ ops'[k].committed
         => LET captured == IF ops'[k].kind = "removeProduct"
                            THEN cart.items ELSE ops[k].cart
            IN  Others(heap', cartState'.items, ops'[k].productId)
                  = Others(heap, captured, ops'[k].productId)]_vars

\* addProduct(p) and addProduct(q) overlap on an empty Cart and both commit:
\* either serial order ends with two line items, this execution with one.
C17_Witness ==
  \E j, k \in Slots :
    /\ Done(j, "addProduct") /\ ops[j].committed /\ ops[j].before = << >>
    /\ Done(k, "addProduct") /\ ops[k].committed /\ ops[k].before = << >>
    /\ ops[j].productId # ops[k].productId
    /\ ~RenderPending
    /\ LET first == [id |-> ops[j].productId, amount |-> 1]
           second == [id |-> ops[k].productId, amount |-> 1]
       IN  Cart # << first, second >> /\ Cart # << second, first >>
                                      /\ Cart = << second >>

\* C18 (order of checks in updateProductAmount): for a productId that is not
\* in the Cart, an amount below 1 is rejected with the could-not-update
\* notification before any fetch; otherwise the stock is fetched and compared
\* first, so an amount above the stock yields the insufficient-stock
\* notification and an amount within it the could-not-update one.  The Cart
\* is unchanged in every case.
C18_CheckOrder ==
  \A k \in Slots :
    /\ ops[k].kind = "updateProductAmount" /\ ops[k].amount < 1
          => ops[k].pc # "getStock" /\ ops[k].stockAmount < 0
    /\ Done(k, "updateProductAmount") /\ ops[k].productId \notin Ids(ops[k].before)
          => /\ Cart = ops[k].before
             /\ ~ops[k].committed
             /\ ops[k].amount < 1 => ops[k].toast = ErrUpdate
             /\ ops[k].amount >= 1 /\ ops[k].stockAmount >= 0
                   /\ ops[k].amount > ops[k].stockAmount
                   => ops[k].toast = ErrStock
             /\ ops[k].amount >= 1 /\ ops[k].stockAmount >= 0
                   /\ ops[k].amount <= ops[k].stockAmount
                   => ops[k].toast = ErrUpdate

\* An absent product was asked for more than the stock holds.
C18_Witness ==
  \E k \in Slots :
    /\ Done(k, "updateProductAmount")
    /\ ops[k].productId \notin Ids(ops[k].before)
    /\ ops[k].stockAmount >= 0
    /\ ops[k].amount > ops[k].stockAmount
    /\ ops[k].toast = ErrStock
    /\ Cart = ops[k].before

\* An absent product was asked for an amount the stock covers.
C18_WitnessWithinStock ==
  \E k \in Slots :
    /\ Done(k, "updateProductAmount")
    /\ ops[k].productId \notin Ids(ops[k].before)
    /\ ops[k].amount >= 1
    /\ ops[k].amount <= ops[k].stockAmount
    /\ ops[k].toast = ErrUpdate

\* C19 (uniqueness under interleaving): however the calls overlap, each
\* working from the cart it captured, no committed Cart, neither the state
\* cell nor the cart of a render, holds two line items with one productId.
C19_UniquenessInterleaved ==
  /\ UniqueIds(Content(heap, cartState.items))
  /\ UniqueIds(Content(heap, cart.items))

\* Two addProduct calls for the same new product overlap and both commit.
C19_Witness ==
  \E j, k \in Slots :
    /\ j # k
    /\ Done(j, "addProduct") /\ ops[j].committed
    /\ Done(k, "addProduct") /\ ops[k].committed
    /\ ops[j].productId = ops[k].productId
    /\ ops[j].productId \notin Ids(ops[j].before)
    /\ ops[k].productId \notin Ids(ops[k].before)
    /\ Len(Cart) = NumProducts

\* The calls made so far are all addProduct(p) or updateProductAmount(p, n).
OnlyCallsOn(p) ==
  \A k \in Slots :
    \/ ops[k].pc = "idle"
    \/ ops[k].productId = p /\ ops[k].kind \in {"addProduct", "updateProductAmount"}

\* Every answer the remote has given about the stock so far was s.
StockFixedAt(s) ==
  \A k \in Slots :
    /\ ops[k].stockAmount >= 0 => ops[k].stockAmount = s
    /\ ops[k].inStock >= 0 => ops[k].inStock = s

AmountsOf(content, p) ==
  { content[i].amount : i \in { j \in 1 .. Len(content) : content[j].id = p } }

\* C20 (stock ceiling for an existing item under overlapping operations):
\* when p was in the Cart with an amount of at most s before the first call,
\* the remote stock of p stays s, and the calls, overlapping in any way, are
\* addProduct(p) and updateProductAmount(p, n), the amount of p's line item
\* never exceeds s: the copies share the item, so the comparison after the
\* fetch sees what the other calls wrote.
C20_SharedItemCeiling ==
  \A p \in Catalog, s \in 0 .. MaxStock :
    /\ ops[1].pc # "idle"
    /\ OnlyCallsOn(p)
    /\ StockFixedAt(s)
    /\ AmountsOf(ops[1].before, p) # {}
    /\ \A a \in AmountsOf(ops[1].before, p) : a <= s
    => /\ AmountsOf(Cart, p) # {}
       /\ \A a \in AmountsOf(Cart, p) \cup AmountsOf(Content(heap, cart.items), p) :
            a <= s

\* Two addProduct(p) overlap with one unit of stock left: both fetched the
\* stock before either wrote; the first took the unit, the second was refused.
C20_Witness ==
  \E j, k \in Slots, p \in Catalog, s \in 1 .. MaxStock :
    /\ j # k
    /\ ops[1].pc # "idle" /\ OnlyCallsOn(p) /\ StockFixedAt(s)
    /\ AmountsOf(ops[j].before, p) = {s - 1}
    /\ AmountsOf(ops[k].before, p) = {s - 1}
    /\ Done(j, "addProduct") /\ ops[j].committed /\ ops[j].stockAmount = s
    /\ Done(k, "addProduct") /\ ops[k].toast = ErrStock /\ ops[k].stockAmount = s
    /\ AmountsOf(Cart, p) = {s}

====
